---- MODULE Spec2Model ----
(***************************************************************************)
(* Model of tasks.py (volpatto/autodiff): the invoke tasks compile, clear, *)
(* wrappers, tests and msvc, the directory preparation they share and the  *)
(* command-line builders.                                                  *)
(*                                                                         *)
(* The filesystem is a small tree of paths around BUILD_DIR_DEFAULT; every *)
(* entry is absent, a regular file or a directory (no symbolic links).     *)
(* Strings are sequences of one-character strings, so that strip, split    *)
(* and join are computed character by character.                           *)
(***************************************************************************)
EXTENDS Integers, Sequences, FiniteSets, TLC

VARIABLES
    win,          \* sys.platform.startswith('win')
    conda,        \* whether os.environ has CONDA_PREFIX
    fs,           \* filesystem: path -> "absent" | "file" | "dir"
    cwd,          \* process working directory
    pc,           \* "idle" | "shell" | "done"; "prepare", "strip", "build", "returned"
    task,         \* name of the task being run
    args,         \* arguments of the task being run
    fsBefore,     \* filesystem when the task was entered
    cmdline,      \* string handed to c.run (commands joined by "&&")
    warn,         \* warn= argument of c.run
    pending,      \* commands the shell has not started yet
    executed,     \* <<command, exit status>> of every command the shell ran
    procStatus,   \* exit status of the shell process, -1 while none finished
    error,        \* exception that ended the task, "none" otherwise
    exit,         \* exit status of the task, -1 while it has not finished
    ntasks,       \* number of tasks started so far
    prepLog,      \* calls of _get_and_prepare_build made so far
    input,        \* arguments of the pure function under check
    output        \* its result

vars == <<win, conda, fs, cwd, pc, task, args, fsBefore, cmdline, warn, pending,
          executed, procStatus, error, exit, ntasks, prepLog, input, output>>

taskVars == <<task, args, fsBefore, cmdline, warn, pending, executed,
              procStatus, error, exit, ntasks>>

(***************************************************************************)
(* Bounds                                                                  *)
(***************************************************************************)
MaxTasks == 2
MaxExit == 2
MaxCalls == 2
MaxLen == 5
MaxJobs == 12

ExitCodes == 0..MaxExit

(***************************************************************************)
(* Filesystem                                                              *)
(***************************************************************************)
Root == "/"

BUILD_DIR_DEFAULT == "b"

MsvcDir == "msvc"

WrappersDir == "wc"

\* p = parent of the build directory, b = the build directory, art = an
\* entry inside it, msvc = b/msvc, w = b/wrappers, wc = b/wrappers/conda,
\* bin = an entry inside wc.
Nodes == {"p", "b", "art", "msvc", "w", "wc", "bin"}

Parent ==
    [n \in Nodes |->
        CASE n = "p" -> Root
          [] n = "b" -> "p"
          [] n = "art" -> "b"
          [] n = "msvc" -> "b"
          [] n = "w" -> "b"
          [] n = "wc" -> "w"
          [] n = "bin" -> "wc"]

Kinds == {"absent", "file", "dir"}

KindOf(f, n) == IF n = Root THEN "dir" ELSE f[n]

RECURSIVE IsUnder(_, _)
IsUnder(n, d) ==
    IF n = Root THEN FALSE
    ELSE IF Parent[n] = d THEN TRUE
    ELSE IsUnder(Parent[n], d)

\* A filesystem the kernel can be in: what exists lies in a directory.
Consistent(f) ==
    \A n \in Nodes : f[n] # "absent" => KindOf(f, Parent[n]) = "dir"

FileSystems == {f \in [Nodes -> Kinds] : Consistent(f)}

Entries(f, d) == {n \in Nodes : Parent[n] = d /\ f[n] # "absent"}

is_dir(f, path) == KindOf(f, path) = "dir"

rmtree(f, path) ==
    [n \in Nodes |-> IF n = path \/ IsUnder(n, path) THEN "absent" ELSE f[n]]

\* Variants of remove_directory: one that removes nothing, one that removes
\* whatever is at the path.
remove_directory_noop(f, path) == f

remove_directory_any(f, path) == rmtree(f, path)

remove_directory(f, path) ==
    IF is_dir(f, path) THEN rmtree(f, path) ELSE f

\* Kind of the nearest ancestor of n that exists.
RECURSIVE NearestAncestorKind(_, _)
NearestAncestorKind(f, n) ==
    IF KindOf(f, Parent[n]) # "absent" THEN KindOf(f, Parent[n])
    ELSE NearestAncestorKind(f, Parent[n])

os_mkdir(f, path) ==
    IF f[path] # "absent" THEN [fs |-> f, err |-> "FileExistsError"]
    ELSE IF NearestAncestorKind(f, path) = "file"
         THEN [fs |-> f, err |-> "NotADirectoryError"]
    ELSE IF KindOf(f, Parent[path]) = "absent"
         THEN [fs |-> f, err |-> "FileNotFoundError"]
    ELSE [fs |-> [f EXCEPT ![path] = "dir"], err |-> "none"]

\* Path.mkdir(parents=, exist_ok=)
RECURSIVE mkdir(_, _, _, _)
mkdir(f, path, parents, exist_ok) ==
    LET r == os_mkdir(f, path) IN
    IF r.err = "none" THEN r
    ELSE IF r.err = "FileNotFoundError"
    THEN IF ~parents \/ Parent[path] = Root THEN r
         ELSE LET up == mkdir(f, Parent[path], TRUE, TRUE) IN
              IF up.err # "none" THEN up
              ELSE mkdir(up.fs, path, FALSE, exist_ok)
    ELSE IF ~exist_ok \/ ~is_dir(f, path) THEN r
    ELSE [fs |-> f, err |-> "none"]

\* Variants of _get_and_prepare_build: without the mkdir, without the
\* removal, and with exist_ok=clean.
get_and_prepare_build_no_mkdir(f, isClean, build_subdirectory) ==
    [fs |-> IF isClean THEN remove_directory(f, build_subdirectory) ELSE f,
     err |-> "none"]

get_and_prepare_build_no_wipe(f, isClean, build_subdirectory) ==
    mkdir(f, build_subdirectory, TRUE, TRUE)

get_and_prepare_build_exist_not_ok(f, isClean, build_subdirectory) ==
    LET removed == IF isClean THEN remove_directory(f, build_subdirectory)
                   ELSE f
    IN mkdir(removed, build_subdirectory, TRUE, isClean)

get_and_prepare_build(f, isClean, build_subdirectory) ==
    LET removed == IF isClean THEN remove_directory(f, build_subdirectory)
                   ELSE f
    IN mkdir(removed, build_subdirectory, TRUE, ~isClean)

NoArgs == [clean |-> FALSE, gen_wrappers |-> FALSE, path |-> Root]

(***************************************************************************)
(* Directory preparation on its own: any path, any filesystem.             *)
(***************************************************************************)
InitPrepare ==
    /\ win = FALSE
    /\ conda = TRUE
    /\ fs \in FileSystems
    /\ cwd = Root
    /\ pc = "prepare"
    /\ task = "none"
    /\ args = NoArgs
    /\ fsBefore = fs
    /\ cmdline = <<>>
    /\ warn = FALSE
    /\ pending = <<>>
    /\ executed = <<>>
    /\ procStatus = -1
    /\ error = "none"
    /\ exit = -1
    /\ ntasks = 0
    /\ prepLog = <<>>
    /\ input = <<>>
    /\ output = <<>>

PrepareCall(path, wipe) ==
    /\ pc = "prepare"
    /\ Len(prepLog) < MaxCalls
    /\ LET r == get_and_prepare_build(fs, wipe, path) IN
        /\ fs' = r.fs
        /\ prepLog' = Append(prepLog,
                [path |-> path, wipe |-> wipe, before |-> fs,
                 after |-> r.fs, err |-> r.err])
    /\ UNCHANGED <<win, conda, cwd, pc, taskVars, input, output>>

NextPrepare == \E path \in Nodes, wipe \in BOOLEAN : PrepareCall(path, wipe)

SpecPrepare == InitPrepare /\ [][NextPrepare]_vars

(***************************************************************************)
(* The tasks.  A command is named by the builder that renders it; the      *)
(* string handed to c.run is the sequence of commands with "&&" between    *)
(* them, which the shell splits again into its AND-list.                   *)
(***************************************************************************)
Commands == {"configure", "build", "wrappers", "tests"}

RECURSIVE join_and(_)
join_and(commands) ==
    IF Len(commands) = 0 THEN <<>>
    ELSE IF Len(commands) = 1 THEN <<commands[1]>>
    ELSE <<commands[1], "&&">> \o join_and(Tail(commands))

\* The AND-list the shell reads from a command line.
RECURSIVE and_list(_)
and_list(line) ==
    IF line = <<>> THEN <<>>
    ELSE IF Head(line) = "&&" THEN and_list(Tail(line))
    ELSE <<Head(line)>> \o and_list(Tail(line))

\* _get_wrappers_command(c, wrappers_dir), called with `positional`
\* arguments: the command it renders, or the exception it ends with.
get_wrappers_command(positional, hasConda) ==
    IF positional # 2 THEN [cmd |-> "none", err |-> "TypeError"]
    ELSE IF ~hasConda THEN [cmd |-> "none", err |-> "KeyError"]
    ELSE [cmd |-> "wrappers", err |-> "none"]

Init ==
    /\ win \in BOOLEAN
    /\ conda \in BOOLEAN
    /\ fs \in FileSystems
    /\ cwd = Root
    /\ pc = "idle"
    /\ task = "none"
    /\ args = NoArgs
    /\ fsBefore = fs
    /\ cmdline = <<>>
    /\ warn = FALSE
    /\ pending = <<>>
    /\ executed = <<>>
    /\ procStatus = -1
    /\ error = "none"
    /\ exit = -1
    /\ ntasks = 0
    /\ prepLog = <<>>
    /\ input = <<>>
    /\ output = <<>>

\* A task is started from the command line, after the previous one ended.
Enter(name, a) ==
    /\ pc \in {"idle", "done"}
    /\ ntasks < MaxTasks
    /\ ntasks' = ntasks + 1
    /\ task' = name
    /\ args' = a
    /\ fsBefore' = fs
    /\ executed' = <<>>
    /\ procStatus' = -1
    /\ UNCHANGED <<win, conda, prepLog, input, output>>

\* The task ends with an uncaught exception before anything is run.
Raise(exc) ==
    /\ pc' = "done"
    /\ error' = exc
    /\ exit' = 1
    /\ cmdline' = <<>>
    /\ warn' = FALSE
    /\ pending' = <<>>

\* c.run(command, warn=w): the shell process is started on the string.
Run(line, w) ==
    /\ pc' = "shell"
    /\ error' = "none"
    /\ exit' = -1
    /\ cmdline' = line
    /\ warn' = w
    /\ pending' = and_list(line)

compile(isClean, gen_wrappers) ==
    /\ Enter("compile", [clean |-> isClean, gen_wrappers |-> gen_wrappers,
                         path |-> BUILD_DIR_DEFAULT])
    /\ LET r == get_and_prepare_build(fs, isClean, BUILD_DIR_DEFAULT)
           w == get_wrappers_command(1, conda)
           commands == IF gen_wrappers
                       THEN <<"configure", "build", w.cmd>>
                       ELSE <<"configure", "build">>
       IN
        /\ fs' = r.fs
        /\ IF r.err # "none"
           THEN Raise(r.err) /\ cwd' = cwd
           ELSE IF gen_wrappers /\ w.err # "none"
           THEN Raise(w.err) /\ cwd' = cwd
           ELSE /\ cwd' = IF win THEN cwd ELSE BUILD_DIR_DEFAULT
                /\ Run(join_and(commands), FALSE)

\* Variant of clear that prepares the directory afresh instead of only
\* removing it.
clear_recreate(build_dir_path) ==
    /\ Enter("clear", [clean |-> FALSE, gen_wrappers |-> FALSE,
                       path |-> build_dir_path])
    /\ fs' = get_and_prepare_build(fs, TRUE, build_dir_path).fs
    /\ pc' = "done"
    /\ error' = "none"
    /\ exit' = 0
    /\ cmdline' = <<>>
    /\ warn' = FALSE
    /\ pending' = <<>>
    /\ cwd' = cwd

clear(build_dir_path) ==
    /\ Enter("clear", [clean |-> FALSE, gen_wrappers |-> FALSE,
                       path |-> build_dir_path])
    /\ fs' = remove_directory(fs, build_dir_path)
    /\ pc' = "done"
    /\ error' = "none"
    /\ exit' = 0
    /\ cmdline' = <<>>
    /\ warn' = FALSE
    /\ pending' = <<>>
    /\ cwd' = cwd

wrappers(wrappers_dir) ==
    /\ Enter("wrappers", [clean |-> FALSE, gen_wrappers |-> FALSE,
                          path |-> wrappers_dir])
    /\ fs' = remove_directory(fs, wrappers_dir)
    /\ cwd' = cwd
    /\ LET w == get_wrappers_command(2, conda) IN
        IF w.err # "none" THEN Raise(w.err)
        ELSE Run(join_and(<<w.cmd>>), TRUE)

tests ==
    /\ Enter("tests", NoArgs)
    /\ Run(join_and(<<"tests">>), FALSE)
    /\ UNCHANGED <<fs, cwd>>

msvc(isClean) ==
    /\ win
    /\ Enter("msvc", [clean |-> isClean, gen_wrappers |-> FALSE,
                      path |-> MsvcDir])
    /\ LET r == get_and_prepare_build(fs, isClean, MsvcDir) IN
        /\ fs' = r.fs
        /\ cwd' = cwd
        /\ IF r.err # "none" THEN Raise(r.err)
           ELSE \* _get_cmake_command is not defined
                Raise("NameError")

\* The shell runs the next command of its AND-list; a non-zero status ends
\* the list.
ShellStep ==
    /\ pc = "shell"
    /\ pending # <<>>
    /\ \E status \in ExitCodes :
        /\ executed' = Append(executed, <<Head(pending), status>>)
        /\ procStatus' = status
        /\ pending' = IF status = 0 THEN Tail(pending) ELSE <<>>
    /\ UNCHANGED <<win, conda, fs, cwd, pc, task, args, fsBefore, cmdline,
                   warn, error, exit, ntasks, prepLog, input, output>>

\* Variant of RunReturns that never raises UnexpectedExit.
RunReturns_ignore ==
    /\ pc = "shell"
    /\ pending = <<>>
    /\ pc' = "done"
    /\ error' = "none"
    /\ exit' = 0
    /\ UNCHANGED <<win, conda, fs, cwd, task, args, fsBefore, cmdline, warn,
                   pending, executed, procStatus, ntasks, prepLog, input,
                   output>>

\* c.run returns: UnexpectedExit unless the status is zero or warn is set;
\* invoke ends the program with the status carried by UnexpectedExit.
RunReturns ==
    /\ pc = "shell"
    /\ pending = <<>>
    /\ pc' = "done"
    /\ IF procStatus # 0 /\ ~warn
       THEN error' = "UnexpectedExit" /\ exit' = procStatus
       ELSE error' = "none" /\ exit' = 0
    /\ UNCHANGED <<win, conda, fs, cwd, task, args, fsBefore, cmdline, warn,
                   pending, executed, procStatus, ntasks, prepLog, input,
                   output>>

Next ==
    \/ \E isClean \in BOOLEAN, gen_wrappers \in BOOLEAN :
            compile(isClean, gen_wrappers)
    \/ \E build_dir_path \in Nodes : clear(build_dir_path)
    \/ \E wrappers_dir \in Nodes : wrappers(wrappers_dir)
    \/ tests
    \/ \E isClean \in BOOLEAN : msvc(isClean)
    \/ ShellStep
    \/ RunReturns

Spec == Init /\ [][Next]_vars

(***************************************************************************)
(* Strings and the command-line builders                                   *)
(***************************************************************************)
LineBreaks == {"\n", "\r", "\f"}

Whitespace == {" ", "\t"} \cup LineBreaks

\* str.splitlines(): "\r\n" is one line boundary, a final boundary opens no
\* further line.
splitlines(s) ==
    LET ends == {i \in 1..Len(s) :
                    /\ s[i] \in LineBreaks
                    /\ ~(s[i] = "\r" /\ i < Len(s) /\ s[i + 1] = "\n")}
        n == Cardinality(ends)
        end(k) == CHOOSE i \in ends : Cardinality({j \in ends : j <= i}) = k
        first(k) == IF k = 1 THEN 1 ELSE end(k - 1) + 1
        boundary(i) == IF s[i] = "\n" /\ i > 1 /\ s[i - 1] = "\r"
                       THEN i - 1 ELSE i
        last == IF n = 0 THEN 1 ELSE end(n) + 1
    IN [k \in 1..n |-> SubSeq(s, first(k), boundary(end(k)) - 1)]
       \o (IF last <= Len(s) THEN <<SubSeq(s, last, Len(s))>> ELSE <<>>)

\* str.strip()
strip(s) ==
    LET kept == {i \in 1..Len(s) : s[i] \notin Whitespace} IN
    IF kept = {} THEN <<>>
    ELSE SubSeq(s, CHOOSE i \in kept : \A j \in kept : i <= j,
                   CHOOSE i \in kept : \A j \in kept : j <= i)

\* sep.join(parts)
RECURSIVE join(_, _)
join(sep, parts) ==
    IF parts = <<>> THEN <<>>
    ELSE IF Len(parts) = 1 THEN parts[1]
    ELSE parts[1] \o sep \o join(sep, Tail(parts))

RECURSIVE stripped_lines(_)
stripped_lines(lines) ==
    IF lines = <<>> THEN <<>>
    ELSE IF strip(Head(lines)) # <<>>
    THEN <<strip(Head(lines))>> \o stripped_lines(Tail(lines))
    ELSE stripped_lines(Tail(lines))

\* Variant of strip_and_join that keeps the blank lines.
RECURSIVE all_stripped(_)
all_stripped(lines) ==
    IF lines = <<>> THEN <<>>
    ELSE <<strip(Head(lines))>> \o all_stripped(Tail(lines))

strip_and_join_keep_blank(s) == join(<<" ">>, all_stripped(splitlines(s)))

strip_and_join(s) == join(<<" ">>, stripped_lines(splitlines(s)))

Digit == <<"0", "1", "2", "3", "4", "5", "6", "7", "8", "9">>

\* str(n) for an int
RECURSIVE decimal(_)
decimal(n) ==
    IF n < 0 THEN <<"-">> \o decimal(0 - n)
    ELSE IF n < 10 THEN <<Digit[n + 1]>>
    ELSE decimal(n \div 10) \o <<Digit[(n % 10) + 1]>>

Spaces(n) == [i \in 1..n |-> " "]

\* One line of a template: its indentation, its text and the line break.
Line(indent, text) == Spaces(indent) \o text \o <<"\n">>

\* Variant of _get_cmake_build_command that tests number_of_jobs > 1.
get_cmake_build_command_gt1(build_dir, config, number_of_jobs) ==
    strip_and_join(
        <<"\n">>
        \o Line(8, <<"c", "m", "a", "k", "e">>)
        \o Line(12, <<"-", "-", "b", "u", "i", "l", "d">> \o <<" ">> \o build_dir)
        \o Line(12, <<"-", "-", "t", "a", "r", "g", "e", "t", " ", "i", "n", "s", "t", "a", "l", "l">>)
        \o Line(12, <<"-", "-", "c", "o", "n", "f", "i", "g">> \o <<" ">> \o config)
        \o Line(12, <<"-", "-">>)
        \o Line(16, IF number_of_jobs > 1
                    THEN <<"-", "j", " ">> \o decimal(number_of_jobs)
                    ELSE <<>>)
        \o Spaces(4))

get_cmake_build_command(build_dir, config, number_of_jobs) ==
    strip_and_join(
        <<"\n">>
        \o Line(8, <<"c", "m", "a", "k", "e">>)
        \o Line(12, <<"-", "-", "b", "u", "i", "l", "d">> \o <<" ">> \o build_dir)
        \o Line(12, <<"-", "-", "t", "a", "r", "g", "e", "t", " ", "i", "n", "s", "t", "a", "l", "l">>)
        \o Line(12, <<"-", "-", "c", "o", "n", "f", "i", "g">> \o <<" ">> \o config)
        \o Line(12, <<"-", "-">>)
        \o Line(16, IF number_of_jobs >= 1
                    THEN <<"-", "j", " ">> \o decimal(number_of_jobs)
                    ELSE <<>>)
        \o Spaces(4))

(***************************************************************************)
(* strip_and_join on its own: every string up to MaxLen characters.        *)
(***************************************************************************)
Alphabet == {"a", " ", "\t", "\n"}

Strings == UNION {[1..n -> Alphabet] : n \in 0..MaxLen}

InitPure ==
    /\ win = FALSE
    /\ conda = TRUE
    /\ fs = [n \in Nodes |-> "absent"]
    /\ cwd = Root
    /\ task = "none"
    /\ args = NoArgs
    /\ fsBefore = fs
    /\ cmdline = <<>>
    /\ warn = FALSE
    /\ pending = <<>>
    /\ executed = <<>>
    /\ procStatus = -1
    /\ error = "none"
    /\ exit = -1
    /\ ntasks = 0
    /\ prepLog = <<>>
    /\ output = <<>>

InitStrip ==
    /\ InitPure
    /\ pc = "strip"
    /\ input \in Strings

StripCall ==
    /\ pc = "strip"
    /\ output' = strip_and_join(input)
    /\ pc' = "returned"
    /\ UNCHANGED <<win, conda, fs, cwd, taskVars, prepLog, input>>

NextStrip == StripCall

SpecStrip == InitStrip /\ [][NextStrip]_vars

(***************************************************************************)
(* _get_cmake_build_command on its own.                                    *)
(***************************************************************************)
BuildDirs == {<<"/", "b">>, <<"/", "t", "m", "p", "/", "b", "u", "i", "l", "d", "-", "a", "u", "t", "o", "d", "i", "f", "f">>}

Configs == {<<"R", "e", "l", "e", "a", "s", "e">>, <<"D", "e", "b", "u", "g">>}

InitBuild ==
    /\ InitPure
    /\ pc = "build"
    /\ input \in [build_dir : BuildDirs, config : Configs,
                  number_of_jobs : (0 - MaxJobs)..MaxJobs]

BuildCall ==
    /\ pc = "build"
    /\ output' = get_cmake_build_command(input.build_dir, input.config,
                                         input.number_of_jobs)
    /\ pc' = "returned"
    /\ UNCHANGED <<win, conda, fs, cwd, taskVars, prepLog, input>>

NextBuild == BuildCall

SpecBuild == InitBuild /\ [][NextBuild]_vars

(***************************************************************************)
(* Properties                                                              *)
(***************************************************************************)
Under(d) == {n \in Nodes : IsUnder(n, d)}

EmptyDir(f, path) ==
    /\ f[path] = "dir"
    /\ \A n \in Under(path) : f[n] = "absent"

SameOutside(f, g, path) ==
    \A n \in Nodes \ ({path} \cup Under(path)) : f[n] = g[n]

\* C1: whenever compile has handed the configure command to the process
\* runner, the build directory exists as a directory.
C1_BuildDirExistsAtConfigure ==
    (pc = "shell" /\ task = "compile" /\ cmdline # <<>>
        /\ Head(cmdline) = "configure")
    => is_dir(fs, BUILD_DIR_DEFAULT)

\* compile created the build directory and its parent and then started the
\* configure command.
C1_Witness ==
    /\ pc = "shell"
    /\ task = "compile"
    /\ Head(cmdline) = "configure"
    /\ fsBefore["p"] = "absent"
    /\ executed = <<>>

PrepareErrors == {"FileExistsError", "NotADirectoryError"}

ExpectedSteps ==
    IF args.gen_wrappers THEN <<"configure", "build", "wrappers">>
    ELSE <<"configure", "build">>

\* C2: once the directory is prepared, compile runs configure, then build,
\* then (when gen_wrappers is requested) wrapper generation; a step runs only
\* if all earlier steps exited with zero, and the first failing step is the
\* last one run.
C2_StepsInOrder ==
    (pc = "done" /\ task = "compile" /\ error \notin PrepareErrors)
    => /\ Len(executed) \in 1..Len(ExpectedSteps)
       /\ \A i \in 1..Len(executed) :
            /\ executed[i][1] = ExpectedSteps[i]
            /\ (i < Len(executed) => executed[i][2] = 0)
       /\ (Len(executed) < Len(ExpectedSteps)
            => executed[Len(executed)][2] # 0)

C4_WrappersDirRecreated ==
    (pc = "shell" /\ task = "wrappers") => EmptyDir(fs, args.path)

\* C4 as amended: when the wrapper-generation command is executed the
\* wrappers path is not a directory: it is absent with everything below it
\* if it was a directory, and the filesystem is untouched otherwise.
C4_WrappersDirRemoved ==
    (pc = "shell" /\ task = "wrappers")
    => /\ ~is_dir(fs, args.path)
       /\ is_dir(fsBefore, args.path)
            => /\ \A n \in {args.path} \cup Under(args.path) : fs[n] = "absent"
               /\ SameOutside(fs, fsBefore, args.path)
       /\ ~is_dir(fsBefore, args.path) => fs = fsBefore

\* wrappers was run on a directory that had entries.
C4_Witness ==
    /\ pc = "shell"
    /\ task = "wrappers"
    /\ args.path = WrappersDir
    /\ is_dir(fsBefore, WrappersDir)
    /\ Entries(fsBefore, WrappersDir) # {}
    /\ cmdline = <<"wrappers">>

\* C5: prepare with wipe=true on an existing non-empty directory returns
\* with the path an existing directory without entries.
C5_WipeLeavesEmptyDir ==
    pc = "prepare"
    => \A i \in 1..Len(prepLog) :
        (prepLog[i].wipe /\ is_dir(prepLog[i].before, prepLog[i].path)
            /\ Entries(prepLog[i].before, prepLog[i].path) # {})
        => /\ prepLog[i].err = "none"
           /\ EmptyDir(prepLog[i].after, prepLog[i].path)
           /\ SameOutside(prepLog[i].after, prepLog[i].before, prepLog[i].path)

\* prepare wiped a build directory that held an entry with entries below.
C5_Witness ==
    /\ pc = "prepare"
    /\ Len(prepLog) = 1
    /\ prepLog[1].wipe
    /\ prepLog[1].path = BUILD_DIR_DEFAULT
    /\ is_dir(prepLog[1].before, WrappersDir)
    /\ EmptyDir(prepLog[1].after, BUILD_DIR_DEFAULT)

TwiceNoWipe(i) ==
    /\ i + 1 <= Len(prepLog)
    /\ ~prepLog[i].wipe
    /\ ~prepLog[i + 1].wipe
    /\ prepLog[i].path = prepLog[i + 1].path

BothPresentAndKept(i) ==
    /\ prepLog[i].err = "none"
    /\ prepLog[i + 1].err = "none"
    /\ is_dir(prepLog[i].after, prepLog[i].path)
    /\ is_dir(prepLog[i + 1].after, prepLog[i].path)
    /\ prepLog[i + 1].after = prepLog[i + 1].before

\* C6 as stated: for all paths, two calls of prepare with wipe=false in a
\* row raise no error, the directory is present after each, and the second
\* call changes nothing.
C6_TwiceNoWipeAllPaths ==
    pc = "prepare"
    => \A i \in 1..Len(prepLog) : TwiceNoWipe(i) => BothPresentAndKept(i)

\* C6 as amended: the same, for every path at which there is no regular
\* file and none of whose ancestors is a regular file.
C6_TwiceNoWipeNoFileOnPath ==
    pc = "prepare"
    => \A i \in 1..Len(prepLog) :
        (TwiceNoWipe(i)
            /\ prepLog[i].before[prepLog[i].path] # "file"
            /\ NearestAncestorKind(prepLog[i].before, prepLog[i].path) = "dir")
        => BothPresentAndKept(i)

\* prepare was called twice without wipe on an absent build directory whose
\* parent was absent too.
C6_Witness ==
    /\ pc = "prepare"
    /\ Len(prepLog) >= 2
    /\ TwiceNoWipe(1)
    /\ prepLog[1].path = BUILD_DIR_DEFAULT
    /\ prepLog[1].before["p"] = "absent"
    /\ is_dir(prepLog[2].after, BUILD_DIR_DEFAULT)

\* The maximal runs of non-whitespace characters of a string, in order.
Tokens(s) ==
    LET starts == {i \in 1..Len(s) :
                      /\ s[i] \notin Whitespace
                      /\ (i = 1 \/ s[i - 1] \in Whitespace)}
        n == Cardinality(starts)
        start(k) == CHOOSE i \in starts :
                        Cardinality({j \in starts : j <= i}) = k
        stop(i) == CHOOSE j \in i..Len(s) :
                        /\ \A m \in i..j : s[m] \notin Whitespace
                        /\ (j = Len(s) \/ s[j + 1] \in Whitespace)
    IN [k \in 1..n |-> SubSeq(s, start(k), stop(start(k)))]

DigitValue(c) == CHOOSE d \in 0..9 : Digit[d + 1] = c

IsNumber(s) ==
    /\ s # <<>>
    /\ \A i \in 1..Len(s) : \E d \in 0..9 : Digit[d + 1] = s[i]

RECURSIVE ParseInt(_)
ParseInt(s) ==
    IF Len(s) = 1 THEN DigitValue(s[1])
    ELSE 10 * ParseInt(SubSeq(s, 1, Len(s) - 1)) + DigitValue(s[Len(s)])

JFlag == <<"-", "j">>

\* C7: the build command has no -j flag for a job count below 1, and ends
\* with the flag -j followed by exactly the job count otherwise.
C7_JobCountPolicy ==
    pc = "returned"
    => LET t == Tokens(output)
           n == input.number_of_jobs
           flags == {k \in 1..Len(t) : t[k] = JFlag}
       IN IF n < 1
          THEN /\ flags = {}
               /\ t[Len(t)] = <<"-", "-">>
               /\ t[Len(t) - 1] = input.config
          ELSE /\ flags = {Len(t) - 1}
               /\ t[Len(t) - 2] = <<"-", "-">>
               /\ IsNumber(t[Len(t)])
               /\ ParseInt(t[Len(t)]) = n

\* The builder was called with a job count of two digits and rendered it.
C7_Witness ==
    /\ pc = "returned"
    /\ input.number_of_jobs = 12
    /\ SubSeq(output, Len(output) - 4, Len(output))
            = <<"-", "j", " ", "1", "2">>

SingleLine(s) == \A i \in 1..Len(s) : s[i] \notin LineBreaks

Trimmed(s) ==
    s = <<>> \/ (s[1] \notin Whitespace /\ s[Len(s)] \notin Whitespace)

SingleSpaced(s) ==
    \A i \in 1..Len(s) :
        s[i] \in Whitespace
        => /\ s[i] = " "
           /\ (i < Len(s) => s[i + 1] \notin Whitespace)

\* Within each line, neighbouring tokens are separated by one space.
LinesSingleSpaced(s) ==
    \A i, j \in 1..Len(s) :
        (/\ i < j
         /\ s[i] \notin Whitespace
         /\ s[j] \notin Whitespace
         /\ \A k \in (i + 1)..(j - 1) : s[k] \in Whitespace \ LineBreaks)
        => (j = i + 1 \/ (j = i + 2 /\ s[i + 1] = " "))

\* C8 as stated: for every template the result is one line without leading
\* or trailing whitespace whose tokens are separated by exactly one space.
C8_AlwaysSingleSpaced ==
    pc = "returned"
    => (SingleLine(output) /\ Trimmed(output) /\ SingleSpaced(output))

\* C8 as amended: the result is one line without leading or trailing
\* whitespace that holds the tokens of the template in order; its tokens are
\* separated by exactly one space when, within each line of the template,
\* neighbouring tokens are separated by one space.
C8_SingleSpacedLines ==
    pc = "returned"
    => /\ SingleLine(output)
       /\ Trimmed(output)
       /\ Tokens(output) = Tokens(input)
       /\ LinesSingleSpaced(input) => SingleSpaced(output)

\* A template with a whitespace-only line between two tokens was joined.
C8_Witness ==
    /\ pc = "returned"
    /\ input = <<"a", "\n", " ", "\n", "a">>
    /\ output = <<"a", " ", "a">>

\* C9: clear raises nothing; on a directory it removes the path with all
\* below it and nothing else, and it changes nothing when the path is absent
\* or not a directory; the path is never a directory afterwards.
C9_ClearRemovesOnly ==
    (pc = "done" /\ task = "clear")
    => /\ error = "none"
       /\ ~is_dir(fs, args.path)
       /\ is_dir(fsBefore, args.path)
            => /\ \A n \in {args.path} \cup Under(args.path) : fs[n] = "absent"
               /\ SameOutside(fs, fsBefore, args.path)
       /\ ~is_dir(fsBefore, args.path) => fs = fsBefore

\* clear removed a build directory that had entries.
C9_Witness ==
    /\ pc = "done"
    /\ task = "clear"
    /\ args.path = BUILD_DIR_DEFAULT
    /\ Entries(fsBefore, BUILD_DIR_DEFAULT) # {}
    /\ fs[BUILD_DIR_DEFAULT] = "absent"

\* C10: compile with clean=true on a build path that is a regular file ends
\* with a filesystem error, leaves the filesystem as it was and executes no
\* command.
C10_CleanOnFileFails ==
    (task = "compile" /\ args.clean /\ fsBefore[BUILD_DIR_DEFAULT] = "file")
    => /\ pc = "done"
       /\ error = "FileExistsError"
       /\ exit # 0
       /\ fs = fsBefore
       /\ cmdline = <<>>
       /\ executed = <<>>

\* compile was run with clean=true where the build path was a regular file.
C10_Witness ==
    /\ pc = "done"
    /\ task = "compile"
    /\ args.clean
    /\ fsBefore[BUILD_DIR_DEFAULT] = "file"
    /\ fs[BUILD_DIR_DEFAULT] = "file"

====
